---- MODULE Spec2Model ----
(***************************************************************************)
(* Model of OpenAIAPI.chat / _chat_api / _execute_tool (src/openai.py).    *)
(* One behaviour is one chat invocation: the caller's message list, the    *)
(* requests sent to the completion endpoint, the yielded fragments and the *)
(* backoff sleeps.  The transport (responses, stream chunks, failures) and *)
(* the caller's arguments are the nondeterministic inputs.                 *)
(*                                                                         *)
(* Encoding: Python str -> TLA+ string; None -> <<>> and a supplied        *)
(* optional value v -> <<v>>; a dict -> a record whose DOMAIN is its key   *)
(* set; a str content -> [str |-> s], a list content -> [list |-> parts].  *)
(***************************************************************************)
EXTENDS Integers, Sequences, FiniteSets, TLC

VARIABLES
    pc,             \* position of the chat generator
    args,           \* the arguments of the chat call
    messages,       \* the caller's message list (mutated in place)
    api_messages,   \* wire-level message list built by _chat_api
    request_params, \* request parameters (its "messages" entry aliases api_messages)
    attempt,        \* loop variable of the non-streaming retry loop
    response,       \* the response received last (None before the first one)
    assistant_content, \* streaming: content accumulated so far
    tool_calls_buffer, \* streaming: tool calls accumulated so far
    chunk,          \* streaming: the chunk whose processing is suspended on the second request
    nchunks,        \* streaming: chunks consumed so far
    consumed,       \* streaming: the chunks consumed so far, in order
    uuid,           \* number of uuid4() values drawn so far
    model,          \* self.model
    out,            \* fragments yielded to the caller, in order
    requests,       \* requests issued to the completion endpoint, in order
    sleeps,         \* asyncio.sleep delays executed, in order
    executed,       \* one entry per _execute_tool invocation: its input and its outcome
    failures,       \* failures met so far, in order ("first", "second", "tool", "stream")
    error,          \* the exception raised out of chat ("" when none)
    messages0,      \* the caller's list as it was when chat was called
    upload_pc,      \* position of upload_files ("idle" while it is not called)
    file_paths,     \* upload_files: the paths to upload
    display_names,  \* upload_files: the display names (None when not given)
    tasks,          \* upload_files: the state of the upload_file coroutine of each path
    completed,      \* upload_files: the indices of the finished uploads, in completion order
    final_results,  \* upload_files: the list returned
    calls           \* concurrent chat invocations on one client: the state of each call

chat_vars == <<pc, args, messages, api_messages, request_params, attempt, response,
          assistant_content, tool_calls_buffer, chunk, nchunks, consumed, uuid, model,
          out, requests, sleeps, executed, failures, error, messages0>>
upload_vars == <<upload_pc, file_paths, display_names, tasks, completed, final_results>>
vars == <<chat_vars, upload_vars, calls>>

-----------------------------------------------------------------------------
(* Bounds of the model *)
MaxRetries == 3
MaxChunks == 2

(* Python values *)
None == <<>>
Some(v) == <<v>>
Val(o) == o[1]

RECURSIVE Pow2(_)
Pow2(n) == IF n = 0 THEN 1 ELSE 2 * Pow2(n - 1)

IsPrefix(s, t) == Len(s) <= Len(t) /\ SubSeq(t, 1, Len(s)) = s

RECURSIVE Concat(_)
Concat(ss) == IF ss = <<>> THEN "" ELSE Head(ss) \o Concat(Tail(ss))

(* f"call_{uuid.uuid4()}": the n-th fresh identifier *)
Uuid4(n) == "call_uuid" \o ToString(n)

(* json.loads on a tool call's arguments string: the payloads the transport *)
(* can deliver are an object, a truncated object, and the empty string     *)
ArgStrings == {"{}", "{\"loc", ""}
(* a parser that accepts every payload *)
JsonLoadsAny(s) == TRUE
JsonLoadsOk(s) == s = "{}"

-----------------------------------------------------------------------------
(* The tool registry handed to chat: name -> behaviour of the callable *)
ToolRegistry == [get_weather |-> "returns", send_email |-> "raises"]

ToolsGet(tools, name) ==
    IF name \in DOMAIN Val(tools) THEN Some(Val(tools)[name]) ELSE None

ToolOk(name, id) ==
    [role |-> "tool", content |-> [str |-> "\"result of " \o name \o "\""], tool_call_id |-> id]
(* a raising tool reported as if it had returned *)
ToolFailedAsResult(name, id) ==
    [role |-> "tool", content |-> [str |-> "\"result of " \o name \o "\""], tool_call_id |-> id]
ToolFailed(name, id) ==
    [role |-> "tool", content |-> [str |-> "{\"error\": \"" \o name \o " failed\"}"], tool_call_id |-> id]
(* an envelope that does not say which tool is missing *)
ToolNotFoundUnnamed(name, id) ==
    [role |-> "tool", content |-> [str |-> "{\"error\": \"tool not found\"}"], tool_call_id |-> id]
ToolNotFound(name, id) ==
    [role |-> "tool", content |-> [str |-> "{\"error\": \"tool not found " \o name \o "\"}"], tool_call_id |-> id]

(* _execute_tool: the loop over tool_calls from position i, with the       *)
(* responses collected so far and the uuid counter.  Returns the responses *)
(* (pairs <<tool_response, tool_call_id>>), the exception that escaped     *)
(* ("" when none) and the new uuid counter.                                *)
RECURSIVE ExecuteToolFrom(_, _, _, _, _)
ExecuteToolFrom(tool_calls, tools, i, tool_responses, u) ==
    IF i > Len(tool_calls)
    THEN [error |-> "", tool_responses |-> tool_responses, uuid |-> u]
    ELSE LET tool_call == tool_calls[i]
             name == tool_call.function.name
             fresh == tool_call.id = ""
             tool_call_id == IF fresh THEN Uuid4(u + 1) ELSE tool_call.id
             u2 == IF fresh THEN u + 1 ELSE u
         IN  IF name = ""
             THEN ExecuteToolFrom(tool_calls, tools, i + 1, tool_responses, u)
             ELSE IF ~JsonLoadsOk(tool_call.function.arguments)
             THEN [error |-> "JSONDecodeError", tool_responses |-> tool_responses, uuid |-> u2]
             ELSE IF tools = None
             THEN [error |-> "AttributeError", tool_responses |-> tool_responses, uuid |-> u2]
             ELSE LET func == ToolsGet(tools, name)
                      tool_response ==
                          IF func = None THEN ToolNotFound(name, tool_call_id)
                          ELSE IF Val(func) = "returns" THEN ToolOk(name, tool_call_id)
                          ELSE ToolFailed(name, tool_call_id)
                  IN  ExecuteToolFrom(tool_calls, tools, i + 1,
                          Append(tool_responses, <<tool_response, tool_call_id>>), u2)

_execute_tool(tool_calls, tools, u) == ExecuteToolFrom(tool_calls, tools, 1, <<>>, u)

-----------------------------------------------------------------------------
(* Content Normalizer, lines 212-238: one caller part -> the wire parts it *)
(* contributes (none when the part carries no recognised key)              *)
NormalizePart(part) ==
    IF "text" \in DOMAIN part
    THEN <<[type |-> "text", text |-> part.text]>>
    ELSE IF "input_file" \in DOMAIN part
    THEN IF "file_id" \in DOMAIN part.input_file
         THEN <<[type |-> "input_file", file_id |-> part.input_file.file_id]>>
         ELSE <<[type |-> "input_file", filename |-> part.input_file.filename,
                 file_data |-> part.input_file.file_data]>>
    ELSE IF "input_image" \in DOMAIN part
    THEN <<[type |-> "image_url",
            image_url |-> [url |-> part.input_image.image_url,
                           detail |-> IF "detail" \in DOMAIN part.input_image
                                      THEN part.input_image.detail ELSE "auto"]]>>
    ELSE <<>>

RECURSIVE NormalizeParts(_)
NormalizeParts(parts) ==
    IF parts = <<>> THEN <<>>
    ELSE NormalizePart(Head(parts)) \o NormalizeParts(Tail(parts))

ContentOk(content) == "str" \in DOMAIN content \/ "list" \in DOMAIN content

NormalizeContent(content) ==
    IF "str" \in DOMAIN content
    THEN <<[type |-> "text", text |-> content.str]>>
    ELSE NormalizeParts(content.list)

(* msg.get("content", "") *)
MsgContent(msg) == IF "content" \in DOMAIN msg THEN msg.content ELSE [str |-> ""]

(* lines 239-257: the wire-level message built from a caller message *)
ApiMessage(msg) ==
    LET base == [role |-> msg.role, content |-> [list |-> NormalizeContent(MsgContent(msg))]]
        tcs == IF "tool_calls" \in DOMAIN msg
               THEN ("tool_calls" :> [i \in 1..Len(msg.tool_calls) |->
                        [id |-> msg.tool_calls[i].id, type |-> "function",
                         function |-> [name |-> msg.tool_calls[i].function.name,
                                       arguments |-> msg.tool_calls[i].function.arguments]]])
               ELSE [x \in {} |-> x]
        tid == IF "tool_call_id" \in DOMAIN msg
               THEN ("tool_call_id" :> msg.tool_call_id)
               ELSE [x \in {} |-> x]
    IN  base @@ tcs @@ tid

ApiMessages(msgs) == [i \in 1..Len(msgs) |-> ApiMessage(msgs[i])]

(* Parameter validation, lines 197-206: the name of the first parameter    *)
(* out of range, "" when all supplied values are in range                  *)
(* a range check that rejects the lower bound itself *)
OutOfRangeStrict(o, lo, hi) == o # None /\ (Val(o) <= lo \/ Val(o) > hi)

OutOfRange(o, lo, hi) == o # None /\ (Val(o) < lo \/ Val(o) > hi)

ValidateParams(a) ==
    IF OutOfRange(a.topp, 0, 1) THEN "top_p"
    ELSE IF OutOfRange(a.temperature, 0, 2) THEN "temperature"
    ELSE IF OutOfRange(a.presence_penalty, -2, 2) THEN "presence_penalty"
    ELSE IF OutOfRange(a.frequency_penalty, -2, 2) THEN "frequency_penalty"
    ELSE IF OutOfRange(a.logprobs, 0, 20) THEN "logprobs"
    ELSE ""

(* Tool Schema Builder, lines 286-311: formal argument names per callable *)
ToolParams == [get_weather |-> <<"location">>, send_email |-> <<"to", "body">>]

ToolDefinitions(tools) ==
    IF tools = None THEN None
    ELSE Some({[type |-> "function",
                function |-> [name |-> n,
                              parameters |-> [type |-> "object",
                                              properties |-> {ToolParams[n][i] : i \in 1..Len(ToolParams[n])},
                                              required |-> ToolParams[n]]]]
               : n \in DOMAIN Val(tools)})

(* lines 260-311: request_params without its "messages" entry, which is    *)
(* the api_messages list itself; an absent key is None                     *)
BuildRequestParams(a, m) ==
    [model |-> m,
     stream |-> a.stream,
     max_tokens |-> a.max_output_tokens,
     top_p |-> a.topp,
     temperature |-> a.temperature,
     stop |-> a.stop_sequences,
     presence_penalty |-> a.presence_penalty,
     frequency_penalty |-> a.frequency_penalty,
     seed |-> a.seed,
     logprobs |-> a.response_logprobs,
     top_logprobs |-> IF a.response_logprobs # None THEN a.logprobs ELSE None,
     response_format |-> a.response_format,
     tools |-> ToolDefinitions(a.tools)]

(* the request client.chat.completions.create receives on line 319 or 404; *)
(* "call" records which of the two call sites issued it                    *)
FirstRequest(rp, msgs) == [call |-> "first", params |-> rp, messages |-> msgs]

(* lines 375-379 and 435-438: request_params.copy() with messages and stream set *)
SecondRequest(rp, msgs) ==
    [call |-> "second", params |-> [rp EXCEPT !.stream = FALSE], messages |-> msgs]

-----------------------------------------------------------------------------
(* Inputs: the arguments a caller passes to chat *)
NoParams ==
    [max_output_tokens |-> None, topp |-> None, temperature |-> None,
     presence_penalty |-> None, frequency_penalty |-> None, stop_sequences |-> None,
     response_format |-> None, seed |-> None, response_logprobs |-> None,
     logprobs |-> None]

AllParams ==
    [max_output_tokens |-> Some(64), topp |-> Some(1), temperature |-> Some(0),
     presence_penalty |-> Some(-2), frequency_penalty |-> Some(2),
     stop_sequences |-> Some(<<"END">>), response_format |-> None, seed |-> Some(7),
     response_logprobs |-> Some(TRUE), logprobs |-> Some(20)]

(* one parameter supplied, at and just beyond each end of its range *)
EdgeParams ==
    {[NoParams EXCEPT !.topp = Some(v)] : v \in {-1, 0, 1, 2}}
    \cup {[NoParams EXCEPT !.temperature = Some(v)] : v \in {-1, 0, 2, 3}}
    \cup {[NoParams EXCEPT !.presence_penalty = Some(v)] : v \in {-3, -2, 2, 3}}
    \cup {[NoParams EXCEPT !.frequency_penalty = Some(v)] : v \in {-3, -2, 2, 3}}
    \cup {[NoParams EXCEPT !.logprobs = Some(v), !.response_logprobs = Some(FALSE)]
            : v \in {-1, 0, 20, 21}}
    \cup {[AllParams EXCEPT !.frequency_penalty = Some(3)],
          [AllParams EXCEPT !.topp = Some(2), !.logprobs = Some(21)]}

UserQuestion == [role |-> "user", content |-> [list |-> <<[type |-> "text", text |-> "question"]>>]]
SystemMessage(text) == [role |-> "system", content |-> [list |-> <<[type |-> "text", text |-> text]>>]]

(* message lists a caller holds: a fresh one, and one that earlier turns   *)
(* (with a system instruction, str contents) have already extended         *)
FreshList == <<UserQuestion>>
UsedList ==
    <<SystemMessage("be brief"), [role |-> "user", content |-> [str |-> "hello"]],
      [role |-> "assistant", content |-> [str |-> "hi"]], UserQuestion>>

(* a message with file and image parts (lines 649-665, 686-701), and one   *)
(* with a part that carries none of the keys the normalizer looks for      *)
FileList ==
    <<[role |-> "user",
       content |-> [list |-> <<[type |-> "text", text |-> "summarise"],
                               [input_file |-> [file_id |-> "file_1"]],
                               [input_file |-> [filename |-> "a.pdf", file_data |-> "JVBERi0"]],
                               [input_image |-> [image_url |-> "data:image/png;base64,iVBOR",
                                                 detail |-> "high"]],
                               [input_image |-> [image_url |-> "data:image/jpeg;base64,9j4"]]>>]]>>
OddList ==
    <<[role |-> "user",
       content |-> [list |-> <<[type |-> "text", text |-> "question"],
                               [video |-> "clip.mp4"]>>]]>>

CallArgs(messages_in, stream, tools, system_instruction, params, retries) ==
    [messages |-> messages_in, stream |-> stream, tools |-> tools,
     system_instruction |-> system_instruction, retries |-> retries] @@ params

Calls ==
    {CallArgs([list |-> FreshList], FALSE, Some(ToolRegistry), None, NoParams, r) :
        r \in 0..MaxRetries}
    \cup {CallArgs([list |-> FreshList], FALSE, tl, None, ps, r) :
        tl \in {None, Some(ToolRegistry)}, ps \in {NoParams, AllParams}, r \in {0, 1, 2}}
    \cup {CallArgs([list |-> FreshList], TRUE, tl, None, ps, r) :
        tl \in {None, Some(ToolRegistry)}, ps \in {NoParams, AllParams}, r \in {0, MaxRetries}}
    \cup {CallArgs(m, FALSE, Some(ToolRegistry), si, NoParams, 1) :
        m \in {[list |-> FreshList], [list |-> UsedList], [str |-> "question"]},
        si \in {None, Some(""), Some("be brief")}}
    \cup {CallArgs(m, TRUE, Some(ToolRegistry), Some("be brief"), NoParams, 1) :
        m \in {[list |-> UsedList], [str |-> "question"]}}
    \cup {CallArgs([list |-> FreshList], FALSE, None, None, ps, 1) : ps \in EdgeParams}
    \cup {CallArgs([list |-> m], FALSE, None, None, NoParams, 1) : m \in {FileList, OddList}}
    \cup {CallArgs([list |-> FreshList], TRUE, None, None, ps, 1) :
        ps \in {e \in EdgeParams : e.topp # None \/ e.logprobs # None}}

-----------------------------------------------------------------------------
(* Inputs: what the transport can answer *)
ToolCall(id, name, arguments) ==
    [id |-> id, function |-> [name |-> name, arguments |-> arguments]]

TC_weather == ToolCall("call_1", "get_weather", "{}")
TC_noid    == ToolCall("", "get_weather", "{}")
TC_unknown == ToolCall("call_2", "get_time", "{}")
TC_raises  == ToolCall("call_3", "send_email", "{}")
TC_noname  == ToolCall("call_4", "", "{}")
TC_badjson == ToolCall("call_5", "get_weather", "{\"loc")
TC_noargs  == ToolCall("call_6", "get_weather", "")

ToolCallLists ==
    {<<TC_weather>>, <<TC_noid, TC_unknown>>, <<TC_raises, TC_weather>>, <<TC_noname>>,
     <<TC_noargs>>, <<TC_badjson, TC_weather>>, <<TC_noname, TC_weather>>}

Message(content, reasoning_content, tool_calls, logprobs) ==
    [content |-> content, reasoning_content |-> reasoning_content,
     tool_calls |-> tool_calls, logprobs |-> logprobs]

PlainResponses ==
    {Message("Paris", "", <<>>, None), Message("Paris", "thinking", <<>>, Some("lp")),
     Message("", "thinking", <<>>, None)}

FirstResponses == PlainResponses \cup {Message("", "", tcs, None) : tcs \in ToolCallLists}

SecondResponses ==
    {Message("Sunny", "thinking", <<>>, None), Message("", "", <<TC_weather>>, None)}

Chunk(reasoning_content, content, tool_calls, finish_reason) ==
    [choices |-> TRUE, reasoning_content |-> reasoning_content, content |-> content,
     tool_calls |-> tool_calls, finish_reason |-> finish_reason]

Chunks ==
    {Chunk("thinking", "Par", <<>>, ""), Chunk("", "is", <<>>, "stop"),
     Chunk("", "", <<>>, "length"),
     Chunk("", "", <<TC_weather>>, ""), Chunk("", "", <<TC_noid, TC_unknown>>, "tool_calls"),
     Chunk("", "", <<>>, "tool_calls"), Chunk("", "", <<TC_badjson, TC_noargs>>, "tool_calls"),
     Chunk("", "", <<TC_noname, TC_raises>>, "tool_calls"),
     Chunk("", "OK", <<TC_weather>>, "tool_calls"),
     [Chunk("", "", <<>>, "") EXCEPT !.choices = FALSE]}

-----------------------------------------------------------------------------
(* Messages and fragments the engine produces *)
(* lines 348-352 and 419-423 *)
ToolCallsMessage(tool_calls) ==
    [role |-> "assistant", content |-> [str |-> "Tool calls executed"],
     tool_calls |-> tool_calls]

(* lines 368-372 and 428-432 *)
ToolMessages(tool_responses) ==
    [i \in 1..Len(tool_responses) |->
        [role |-> "tool", content |-> tool_responses[i][1].content,
         tool_call_id |-> tool_responses[i][2]]]

(* an assistant message that keeps the reasoning text with the content *)
AssistantMessageWithReasoning(message) ==
    [role |-> "assistant", content |-> [str |-> message.reasoning_content \o message.content]]

(* lines 383-386, 442-445, 452-455: message.content or "" *)
AssistantMessage(message) == [role |-> "assistant", content |-> [str |-> message.content]]

ReasoningFragment(text) == "REASONING: " \o text
(* line 461; json.dumps of the log-probabilities is their text *)
LogprobsFragment(message) == message.content \o "\nLogprobs: " \o Val(message.logprobs)
(* line 394 *)
ErrorFragment(e) == "error: no final response - " \o e
(* line 395 *)
ErrorMessage(e) == [role |-> "assistant", content |-> [str |-> "error: " \o e]]

TransportError == "transport error"

(* the content yielded before the reasoning *)
YieldContentFirst(message) ==
    (IF message.content # "" THEN <<message.content>> ELSE <<>>)
    \o (IF message.reasoning_content # ""
        THEN <<ReasoningFragment(message.reasoning_content)>> ELSE <<>>)

(* the yields of lines 388-391, 447-450, 464-467: reasoning, then content *)
YieldMessage(message) ==
    (IF message.reasoning_content # "" THEN <<ReasoningFragment(message.reasoning_content)>> ELSE <<>>)
    \o (IF message.content # "" THEN <<message.content>> ELSE <<>>)

(* the yields of lines 459-461: reasoning, then content with the log-probabilities *)
YieldWithLogprobs(message) ==
    (IF message.reasoning_content # "" THEN <<ReasoningFragment(message.reasoning_content)>> ELSE <<>>)
    \o <<LogprobsFragment(message)>>

(* lines 409-418: the tool calls of a completed message, ids generated where absent *)
MissingUpTo(tcs, i) == Cardinality({j \in 1..i : tcs[j].id = ""})
ToolCallsOf(tcs, u) ==
    [i \in 1..Len(tcs) |->
        [id |-> IF tcs[i].id = "" THEN Uuid4(u + MissingUpTo(tcs, i)) ELSE tcs[i].id,
         type |-> "function",
         function |-> [name |-> tcs[i].function.name,
                       arguments |-> tcs[i].function.arguments]]]

(* lines 329-346: the tool calls of one stream delta appended to the buffer; *)
(* a payload that is not well-formed JSON is skipped                         *)
RECURSIVE Accumulate(_, _, _)
Accumulate(buffer, tcs, u) ==
    IF tcs = <<>> THEN [buffer |-> buffer, uuid |-> u]
    ELSE LET tool_call == Head(tcs)
             fresh == tool_call.id = ""
             tool_call_id == IF fresh THEN Uuid4(u + 1) ELSE tool_call.id
             u2 == IF fresh THEN u + 1 ELSE u
             arguments == IF tool_call.function.arguments = "" THEN "{}"
                          ELSE tool_call.function.arguments
         IN  IF JsonLoadsOk(arguments)
             THEN Accumulate(Append(buffer,
                      [id |-> tool_call_id, type |-> "function",
                       function |-> [name |-> tool_call.function.name,
                                     arguments |-> arguments]]), Tail(tcs), u2)
             ELSE Accumulate(buffer, Tail(tcs), u2)

(* lines 356-364: the objects handed to _execute_tool in streaming mode *)
BufferCalls(buffer) ==
    [i \in 1..Len(buffer) |-> ToolCall(buffer[i].id, buffer[i].function.name,
                                       buffer[i].function.arguments)]

-----------------------------------------------------------------------------
(* the state of the caller's list and of _chat_api's locals before chat is called *)
ChatStart ==
    /\ pc = "idle"
    /\ messages = IF "list" \in DOMAIN args.messages THEN args.messages.list ELSE <<>>
    /\ messages0 = messages
    /\ api_messages = <<>>
    /\ request_params = None
    /\ attempt = 0
    /\ response = None
    /\ assistant_content = ""
    /\ tool_calls_buffer = <<>>
    /\ chunk = None
    /\ nchunks = 0
    /\ consumed = <<>>
    /\ uuid = 0
    /\ model = "deepseek-ai/DeepSeek-R1"
    /\ out = <<>>
    /\ requests = <<>>
    /\ sleeps = <<>>
    /\ executed = <<>>
    /\ failures = <<>>
    /\ error = ""

(* upload_files is not called *)
NoUpload ==
    /\ upload_pc = "idle"
    /\ file_paths = <<>>
    /\ display_names = None
    /\ tasks = <<>>
    /\ completed = <<>>
    /\ final_results = <<>>

Init ==
    /\ args \in Calls
    /\ ChatStart
    /\ NoUpload
    /\ calls = <<>>

(* chat, lines 496-499: a str input becomes a new one-message list; a      *)
(* system instruction is inserted at the front of the list                 *)
ChatMessages(a, caller_list) ==
    LET list == IF "str" \in DOMAIN a.messages
                THEN <<[role |-> "user",
                        content |-> [list |-> <<[type |-> "text", text |-> a.messages.str]>>]]>>
                ELSE caller_list
    IN  IF a.system_instruction # None /\ Val(a.system_instruction) # ""
        THEN <<SystemMessage(Val(a.system_instruction))>> \o list
        ELSE list

Chat ==
    /\ pc = "idle"
    /\ messages' = ChatMessages(args, messages)
    /\ pc' = "validate"
    /\ UNCHANGED <<args, api_messages, request_params, attempt, response,
                   assistant_content, tool_calls_buffer, chunk, nchunks, consumed, uuid, model,
                   out, requests, sleeps, executed, failures, error, messages0>>
    /\ UNCHANGED <<upload_vars, calls>>

(* _chat_api, lines 194-206 *)
Validate ==
    /\ pc = "validate"
    /\ IF ValidateParams(args) # ""
       THEN pc' = "raised" /\ error' = "ValueError: " \o ValidateParams(args)
       ELSE pc' = "build" /\ error' = error
    /\ UNCHANGED <<args, messages, api_messages, request_params, attempt, response,
                   assistant_content, tool_calls_buffer, chunk, nchunks, consumed, uuid, model,
                   out, requests, sleeps, executed, failures, messages0>>
    /\ UNCHANGED <<upload_vars, calls>>

(* _chat_api, lines 208-318 and 402: messages normalized, request built,   *)
(* and the branch on stream / the retry loop entered                       *)
BuildRequest ==
    /\ pc = "build"
    /\ IF \E i \in 1..Len(messages) : ~ContentOk(MsgContent(messages[i]))
       THEN /\ pc' = "raised"
            /\ error' = "ValueError: content"
            /\ UNCHANGED <<api_messages, request_params>>
       ELSE /\ api_messages' = ApiMessages(messages)
            /\ request_params' = Some(BuildRequestParams(args, model))
            /\ pc' = IF args.stream THEN "open"
                     ELSE IF 0 < args.retries THEN "first" ELSE "finish"
            /\ error' = error
    /\ UNCHANGED <<args, messages, attempt, response,
                   assistant_content, tool_calls_buffer, chunk, nchunks, consumed, uuid, model,
                   out, requests, sleeps, executed, failures, messages0>>
    /\ UNCHANGED <<upload_vars, calls>>

-----------------------------------------------------------------------------
(* Non-streaming mode, lines 402-473 *)

(* a backoff that multiplies instead of exponentiating *)
BackoffDelayLinear(n) == 2 * n

(* line 473: the delay slept after a failed attempt *)
BackoffDelay(n) == Pow2(n)

(* a retry loop that allows one attempt more *)
LastAttemptLate(n, retries) == n = retries

(* a retry loop that gives up one attempt early *)
LastAttemptEarly(n, retries) == n >= retries - 2

(* line 471: the failed attempt was the last one *)
LastAttempt(n, retries) == n = retries - 1

(* lines 469-473: the handler of any exception raised inside the attempt *)
Except(kind, e) ==
    /\ failures' = Append(failures, kind)
    /\ IF LastAttempt(attempt, args.retries)
       THEN pc' = "raised" /\ error' = e /\ UNCHANGED <<attempt, sleeps>>
       ELSE /\ sleeps' = Append(sleeps, BackoffDelay(attempt))
            /\ attempt' = attempt + 1
            /\ pc' = "first"
            /\ error' = error

(* line 404 raises *)
FirstRequestFails ==
    /\ pc = "first"
    /\ requests' = Append(requests, FirstRequest(Val(request_params), api_messages))
    /\ Except("first", TransportError)
    /\ UNCHANGED <<args, messages, api_messages, request_params, response,
                   assistant_content, tool_calls_buffer, chunk, nchunks, consumed, uuid, model,
                   out, executed, messages0>>
    /\ UNCHANGED <<upload_vars, calls>>

(* lines 456-457: the assistant message of a response without tool calls *)
WantsLogprobs(a, message) == a.response_logprobs = Some(TRUE) /\ message.logprobs # None

PlainMessage(a, message) ==
    IF WantsLogprobs(a, message)
    THEN [role |-> "assistant", content |-> [str |-> message.content],
          logprobs |-> Val(message.logprobs)]
    ELSE AssistantMessage(message)

(* the log-probabilities left out of the yielded fragment *)
PlainYieldsContentOnly(a, message) == YieldMessage(message)

PlainYields(a, message) ==
    IF WantsLogprobs(a, message) THEN YieldWithLogprobs(message) ELSE YieldMessage(message)

(* lines 404-408, 451-468: a response without tool calls *)
FirstResponsePlain ==
    /\ pc = "first"
    /\ \E message \in FirstResponses :
        /\ message.tool_calls = <<>>
        /\ requests' = Append(requests, FirstRequest(Val(request_params), api_messages))
        /\ response' = Some(message)
        /\ messages' = Append(messages, PlainMessage(args, message))
        /\ out' = out \o PlainYields(args, message)
    /\ pc' = "finish"
    /\ UNCHANGED <<args, api_messages, request_params, attempt,
                   assistant_content, tool_calls_buffer, chunk, nchunks, consumed, uuid, model,
                   sleeps, executed, failures, error, messages0>>
    /\ UNCHANGED <<upload_vars, calls>>

(* lines 404-434: a response with tool calls, up to the second request *)
FirstResponseTools ==
    /\ pc = "first"
    /\ \E message \in FirstResponses :
        /\ message.tool_calls # <<>>
        /\ requests' = Append(requests, FirstRequest(Val(request_params), api_messages))
        /\ response' = Some(message)
        /\ LET tool_calls == ToolCallsOf(message.tool_calls, uuid)
               u1 == uuid + MissingUpTo(message.tool_calls, Len(message.tool_calls))
               assistant_message == ToolCallsMessage(tool_calls)
               r == _execute_tool(message.tool_calls, args.tools, u1)
           IN  /\ executed' = Append(executed,
                      [tool_calls |-> message.tool_calls, error |-> r.error,
                       tool_responses |-> r.tool_responses])
               /\ uuid' = r.uuid
               /\ IF r.error # ""
                  THEN /\ messages' = Append(messages, assistant_message)
                       /\ api_messages' = Append(api_messages, assistant_message)
                       /\ Except("tool", r.error)
                  ELSE /\ messages' = Append(messages, assistant_message)
                                        \o ToolMessages(r.tool_responses)
                       /\ api_messages' = Append(api_messages, assistant_message)
                                        \o ToolMessages(r.tool_responses)
                       /\ pc' = "second"
                       /\ UNCHANGED <<attempt, sleeps, failures, error>>
    /\ UNCHANGED <<args, request_params, assistant_content, tool_calls_buffer,
                   chunk, nchunks, consumed, model, out, messages0>>
    /\ UNCHANGED <<upload_vars, calls>>

(* line 438 raises: no handler but the retry loop's *)
SecondRequestFails ==
    /\ pc = "second"
    /\ requests' = Append(requests, SecondRequest(Val(request_params), api_messages))
    /\ Except("second", TransportError)
    /\ UNCHANGED <<args, messages, api_messages, request_params, response,
                   assistant_content, tool_calls_buffer, chunk, nchunks, consumed, uuid, model,
                   out, executed, messages0>>
    /\ UNCHANGED <<upload_vars, calls>>

(* lines 438-450 and 468 *)
SecondResponse ==
    /\ pc = "second"
    /\ \E message \in SecondResponses :
        /\ requests' = Append(requests, SecondRequest(Val(request_params), api_messages))
        /\ response' = Some(message)
        /\ messages' = Append(messages, AssistantMessage(message))
        /\ out' = out \o YieldMessage(message)
    /\ pc' = "finish"
    /\ UNCHANGED <<args, api_messages, request_params, attempt,
                   assistant_content, tool_calls_buffer, chunk, nchunks, consumed, uuid, model,
                   sleeps, executed, failures, error, messages0>>
    /\ UNCHANGED <<upload_vars, calls>>

(* line 475 *)
Finish ==
    /\ pc = "finish"
    /\ pc' = "done"
    /\ UNCHANGED <<args, messages, api_messages, request_params, attempt, response,
                   assistant_content, tool_calls_buffer, chunk, nchunks, consumed, uuid, model,
                   out, requests, sleeps, executed, failures, error, messages0>>
    /\ UNCHANGED <<upload_vars, calls>>

-----------------------------------------------------------------------------
(* Streaming mode, lines 316-400 *)

(* a failed streaming request handed to the retry loop's handler *)
StreamOpenFailsRetried ==
    /\ pc = "open"
    /\ requests' = Append(requests, FirstRequest(Val(request_params), api_messages))
    /\ Except("first", TransportError)
    /\ UNCHANGED <<args, messages, api_messages, request_params, response,
                   assistant_content, tool_calls_buffer, chunk, nchunks, consumed, uuid, model,
                   out, executed, messages0>>
    /\ UNCHANGED <<upload_vars, calls>>

(* line 319: the request itself raises; nothing catches it *)
StreamOpenFails ==
    /\ pc = "open"
    /\ requests' = Append(requests, FirstRequest(Val(request_params), api_messages))
    /\ failures' = Append(failures, "first")
    /\ pc' = "raised"
    /\ error' = TransportError
    /\ UNCHANGED <<args, messages, api_messages, request_params, attempt, response,
                   assistant_content, tool_calls_buffer, chunk, nchunks, consumed, uuid, model,
                   out, sleeps, executed, messages0>>
    /\ UNCHANGED <<upload_vars, calls>>

(* lines 317-319 *)
StreamOpen ==
    /\ pc = "open"
    /\ requests' = Append(requests, FirstRequest(Val(request_params), api_messages))
    /\ assistant_content' = ""
    /\ tool_calls_buffer' = <<>>
    /\ pc' = "stream"
    /\ UNCHANGED <<args, messages, api_messages, request_params, attempt, response,
                   chunk, nchunks, consumed, uuid, model, out, sleeps, executed, failures,
                   error, messages0>>
    /\ UNCHANGED <<upload_vars, calls>>

(* line 319: the stream raises while being iterated *)
StreamBreaks ==
    /\ pc = "stream"
    /\ failures' = Append(failures, "stream")
    /\ pc' = "raised"
    /\ error' = TransportError
    /\ UNCHANGED <<args, messages, api_messages, request_params, attempt, response,
                   assistant_content, tool_calls_buffer, chunk, nchunks, consumed, uuid, model,
                   out, requests, sleeps, executed, messages0>>
    /\ UNCHANGED <<upload_vars, calls>>

(* line 319: the stream is exhausted *)
StreamEnds ==
    /\ pc = "stream"
    /\ pc' = "finish"
    /\ UNCHANGED <<args, messages, api_messages, request_params, attempt, response,
                   assistant_content, tool_calls_buffer, chunk, nchunks, consumed, uuid, model,
                   out, requests, sleeps, executed, failures, error, messages0>>
    /\ UNCHANGED <<upload_vars, calls>>

(* line 347: the condition under which the tool round-trip starts; it is   *)
(* evaluated only in the branch taken for a delta that carries tool calls  *)
(* and no content (lines 325-328)                                          *)
ToolRoundTrip(c, buffer) ==
    c.content = "" /\ c.tool_calls # <<>> /\ c.finish_reason = "tool_calls" /\ buffer # <<>>

(* a flush that appends a message even when no content was accumulated *)
FlushAlways(msgs, content, finish_reason) ==
    IF finish_reason \in {"stop", "length"}
    THEN Append(msgs, [role |-> "assistant", content |-> [str |-> content]])
    ELSE msgs

(* lines 397-400: the history after a chunk with the given finish reason *)
FlushContent(msgs, content, finish_reason) ==
    IF finish_reason \in {"stop", "length"} /\ content # ""
    THEN Append(msgs, [role |-> "assistant", content |-> [str |-> content]])
    ELSE msgs

(* lines 321-374 and 397-400: one chunk, up to the second request if the   *)
(* chunk starts the tool round-trip                                        *)
StreamChunk ==
    /\ pc = "stream"
    /\ nchunks < MaxChunks
    /\ nchunks' = nchunks + 1
    /\ \E c \in Chunks :
        /\ consumed' = Append(consumed, c)
        /\ IF ~c.choices
           THEN UNCHANGED <<pc, messages, api_messages, assistant_content,
                            tool_calls_buffer, chunk, uuid, out, executed, error>>
           ELSE LET reasoning == IF c.reasoning_content # ""
                                 THEN <<ReasoningFragment(c.reasoning_content)>> ELSE <<>>
                    acc == IF c.content = "" /\ c.tool_calls # <<>>
                           THEN Accumulate(tool_calls_buffer, c.tool_calls, uuid)
                           ELSE [buffer |-> tool_calls_buffer, uuid |-> uuid]
                    content == assistant_content \o c.content
                IN  /\ out' = out \o reasoning \o (IF c.content # "" THEN <<c.content>> ELSE <<>>)
                    /\ tool_calls_buffer' = acc.buffer
                    /\ IF ToolRoundTrip(c, acc.buffer)
                       THEN LET assistant_message == ToolCallsMessage(acc.buffer)
                                r == _execute_tool(BufferCalls(acc.buffer), args.tools, acc.uuid)
                            IN  /\ executed' = Append(executed,
                                       [tool_calls |-> BufferCalls(acc.buffer), error |-> r.error,
                                        tool_responses |-> r.tool_responses])
                                /\ uuid' = r.uuid
                                /\ assistant_content' = content
                                /\ IF r.error # ""
                                   THEN /\ messages' = Append(messages, assistant_message)
                                        /\ api_messages' = Append(api_messages, assistant_message)
                                        /\ pc' = "raised"
                                        /\ error' = r.error
                                        /\ chunk' = chunk
                                   ELSE /\ messages' = Append(messages, assistant_message)
                                                         \o ToolMessages(r.tool_responses)
                                        /\ api_messages' = Append(api_messages, assistant_message)
                                                         \o ToolMessages(r.tool_responses)
                                        /\ pc' = "stream_second"
                                        /\ error' = error
                                        /\ chunk' = Some(c)
                       ELSE /\ messages' = FlushContent(messages, content, c.finish_reason)
                            /\ assistant_content' =
                                   IF c.finish_reason \in {"stop", "length"} THEN "" ELSE content
                            /\ uuid' = acc.uuid
                            /\ UNCHANGED <<pc, api_messages, chunk, executed, error>>
    /\ UNCHANGED <<args, request_params, attempt, response, model, requests, sleeps,
                   failures, messages0>>
    /\ UNCHANGED <<upload_vars, calls>>

(* lines 379-391, 396: the second request answers *)
StreamSecondResponse ==
    /\ pc = "stream_second"
    /\ \E message \in SecondResponses :
        /\ requests' = Append(requests, SecondRequest(Val(request_params), api_messages))
        /\ response' = Some(message)
        /\ messages' = Append(messages, AssistantMessage(message))
        /\ out' = out \o YieldMessage(message)
    /\ tool_calls_buffer' = <<>>
    /\ chunk' = None
    /\ pc' = "stream"
    /\ UNCHANGED <<args, api_messages, request_params, attempt, assistant_content,
                   nchunks, consumed, uuid, model, sleeps, executed, failures, error, messages0>>
    /\ UNCHANGED <<upload_vars, calls>>

(* lines 379, 392-396: the second request raises and the handler reports it *)
StreamSecondFails ==
    /\ pc = "stream_second"
    /\ requests' = Append(requests, SecondRequest(Val(request_params), api_messages))
    /\ failures' = Append(failures, "second")
    /\ out' = Append(out, ErrorFragment(TransportError))
    /\ messages' = Append(messages, ErrorMessage(TransportError))
    /\ tool_calls_buffer' = <<>>
    /\ chunk' = None
    /\ pc' = "stream"
    /\ UNCHANGED <<args, api_messages, request_params, attempt, response,
                   assistant_content, nchunks, consumed, uuid, model, sleeps, executed, error,
                   messages0>>
    /\ UNCHANGED <<upload_vars, calls>>

-----------------------------------------------------------------------------
Next ==
    \/ Chat
    \/ Validate
    \/ BuildRequest
    \/ FirstRequestFails
    \/ FirstResponsePlain
    \/ FirstResponseTools
    \/ SecondRequestFails
    \/ SecondResponse
    \/ Finish
    \/ StreamOpenFails
    \/ StreamOpen
    \/ StreamBreaks
    \/ StreamEnds
    \/ StreamChunk
    \/ StreamSecondResponse
    \/ StreamSecondFails

Spec == Init /\ [][Next]_vars

(* every awaited request returns or fails, the stream is exhausted or      *)
(* breaks, and the caller keeps iterating the generator: a step that is    *)
(* possible is eventually taken                                            *)
FairSpec == Spec /\ WF_vars(Next)

-----------------------------------------------------------------------------
(* upload_files / upload_file, lines 38-89.  The file system and the       *)
(* transport are the environment: a path is missing, too large or          *)
(* readable, and the upload of a readable file succeeds or fails.          *)
MaxFiles == 3

(* line 42: the size limit, in MB *)
SizeLimit == 32
(* os.path.getsize, in MB; a path outside the domain does not exist *)
FileSizes == ("a.pdf" :> 1) @@ ("big.pdf" :> 33) @@ ("data.bin" :> 32)
PathNames == DOMAIN FileSizes \cup {"gone.pdf"}
(* lines 49-52: mimetypes.guess_type with the default *)
MimeType(path) == IF path \in {"a.pdf", "big.pdf", "gone.pdf"} THEN "application/pdf"
                  ELSE "application/octet-stream"

RECURSIVE PathLists(_)
PathLists(n) ==
    IF n = 0 THEN {<<>>}
    ELSE PathLists(n - 1)
         \cup {Append(l, p) : l \in {l \in PathLists(n - 1) : Len(l) = n - 1}, p \in PathNames}

DisplayNames(n) == [i \in 1..n |-> "doc" \o ToString(i)]

UploadResult(fileId, mimeType, err) ==
    [fileId |-> fileId, mimeType |-> mimeType, error |-> err]
NotFoundText(path) == "file " \o path \o " does not exist"
OversizeText(path) == "file " \o path \o " exceeds the 32MB limit"
(* line 61: display_name or os.path.basename(file_path) *)
SentName(names, i, path) == IF names # None /\ Val(names) # <<>> THEN Val(names)[i] ELSE path
(* the id the files endpoint gives to an uploaded file *)
FileId(name, path) == "id-" \o name \o "-" \o path

UploadInit ==
    /\ args = CallArgs([list |-> FreshList], FALSE, None, None, NoParams, 1)
    /\ ChatStart
    /\ calls = <<>>
    /\ upload_pc = "called"
    /\ file_paths \in PathLists(MaxFiles)
    /\ display_names \in {None, Some(DisplayNames(Len(file_paths))), Some(<<"doc">>)}
    /\ tasks = <<>>
    /\ completed = <<>>
    /\ final_results = <<>>

(* lines 74-80: the argument checks and the creation of the coroutines *)
UploadFilesStart ==
    /\ upload_pc = "called"
    /\ IF file_paths = <<>>
       THEN upload_pc' = "raised" /\ tasks' = tasks
       ELSE IF display_names # None /\ Val(display_names) # <<>>
               /\ Len(Val(display_names)) # Len(file_paths)
       THEN upload_pc' = "raised" /\ tasks' = tasks
       ELSE /\ upload_pc' = "gather"
            /\ tasks' = [i \in 1..Len(file_paths) |->
                            [pc |-> "created", result |-> None, error |-> ""]]
    /\ UNCHANGED <<file_paths, display_names, completed, final_results, chat_vars, calls>>

(* upload_file, lines 40-58: up to the first await *)
UploadFileBegins(i) ==
    /\ upload_pc = "gather"
    /\ tasks[i].pc = "created"
    /\ LET path == file_paths[i]
       IN  IF path \notin DOMAIN FileSizes
           THEN /\ tasks' = [tasks EXCEPT ![i] =
                       [pc |-> "returned", error |-> "",
                        result |-> Some(UploadResult(None, None, Some(NotFoundText(path))))]]
                /\ completed' = Append(completed, i)
           ELSE IF FileSizes[path] > SizeLimit
           THEN /\ tasks' = [tasks EXCEPT ![i] =
                       [pc |-> "raised", error |-> OversizeText(path), result |-> None]]
                /\ completed' = Append(completed, i)
           ELSE /\ tasks' = [tasks EXCEPT ![i].pc = "uploading"]
                /\ completed' = completed
    /\ UNCHANGED <<upload_pc, file_paths, display_names, final_results, chat_vars, calls>>

(* upload_file, lines 59-67: the file is read and the endpoint answers *)
UploadFileSucceeds(i) ==
    /\ upload_pc = "gather"
    /\ tasks[i].pc = "uploading"
    /\ LET path == file_paths[i]
           file_id == FileId(SentName(display_names, i, path), path)
       IN  tasks' = [tasks EXCEPT ![i] =
                       [pc |-> "returned", error |-> "",
                        result |-> Some(UploadResult(Some(file_id), Some(MimeType(path)), None))]]
    /\ completed' = Append(completed, i)
    /\ UNCHANGED <<upload_pc, file_paths, display_names, final_results, chat_vars, calls>>

(* upload_file, lines 68-70: reading or uploading raises *)
UploadFileFails(i) ==
    /\ upload_pc = "gather"
    /\ tasks[i].pc = "uploading"
    /\ tasks' = [tasks EXCEPT ![i] =
                    [pc |-> "returned", error |-> "",
                     result |-> Some(UploadResult(None, Some(MimeType(file_paths[i])),
                                                  Some(TransportError)))]]
    /\ completed' = Append(completed, i)
    /\ UNCHANGED <<upload_pc, file_paths, display_names, final_results, chat_vars, calls>>

(* results listed in the order the uploads finished *)
GatherInCompletionOrder(ts, done) ==
    [i \in 1..Len(ts) |->
        IF ts[done[i]].pc = "raised"
        THEN UploadResult(None, None, Some(ts[done[i]].error))
        ELSE Val(ts[done[i]].result)]

(* lines 81-88: asyncio.gather(return_exceptions=True) lists the outcomes  *)
(* in the order of the coroutines; an exception becomes an error entry     *)
GatherResults(ts, done) ==
    [i \in 1..Len(ts) |->
        IF ts[i].pc = "raised"
        THEN UploadResult(None, None, Some(ts[i].error))
        ELSE Val(ts[i].result)]

(* lines 81-89: every coroutine has finished *)
Gather ==
    /\ upload_pc = "gather"
    /\ \A i \in DOMAIN tasks : tasks[i].pc \in {"returned", "raised"}
    /\ final_results' = GatherResults(tasks, completed)
    /\ upload_pc' = "returned"
    /\ UNCHANGED <<file_paths, display_names, tasks, completed, chat_vars, calls>>

UploadNext ==
    \/ UploadFilesStart
    \/ \E i \in DOMAIN tasks : UploadFileBegins(i)
    \/ \E i \in DOMAIN tasks : UploadFileSucceeds(i)
    \/ \E i \in DOMAIN tasks : UploadFileFails(i)
    \/ Gather

UploadSpec == UploadInit /\ [][UploadNext]_vars

-----------------------------------------------------------------------------
(* Two chat invocations on one client, lines 194, 261, 402-509.  Each      *)
(* invocation is a frame with its own locals; the client's model attribute *)
(* and the message lists the caller passes are objects outside the frames. *)
(* A frame runs from one suspension point (an awaited request, an awaited  *)
(* tool, a yield) to the next without interruption.                        *)
CallIds == {1, 2}

(* every variable of one invocation but the client's model attribute *)
frame_vars == <<pc, args, messages, api_messages, request_params, attempt, response,
                assistant_content, tool_calls_buffer, chunk, nchunks, consumed, uuid,
                out, requests, sleeps, executed, failures, error, messages0>>

ConcCalls ==
    {CallArgs(m, FALSE, Some(ToolRegistry), si, ps, 1) :
        m \in {[list |-> FreshList], [str |-> "question"]},
        si \in {None, Some("be brief")}, ps \in {NoParams, AllParams}}

ConcFirstResponses ==
    {Message("Paris", "", <<>>, None), Message("", "", <<TC_weather>>, None)}
ConcSecondResponses == {Message("Sunny", "thinking", <<>>, None)}

(* the list object a caller passes, before chat touches it *)
CallerList(a) == IF "list" \in DOMAIN a.messages THEN a.messages.list ELSE <<>>

Frame(a, r) ==
    [pc |-> "created", args |-> a, ref |-> r, original_model |-> "",
     api_messages |-> <<>>, request_params |-> None, tool_calls |-> <<>>,
     requests |-> <<>>, out |-> <<>>, turn |-> <<>>]

(* the second invocation is given its own list, or the very list object   *)
(* the first was given                                                     *)
ConcInit ==
    /\ args = CallArgs([list |-> FreshList], FALSE, None, None, NoParams, 1)
    /\ ChatStart
    /\ NoUpload
    /\ \E a1 \in ConcCalls, a2 \in ConcCalls :
         \E r2 \in {2} \cup (IF "list" \in DOMAIN a1.messages /\ a2.messages = a1.messages
                              THEN {1} ELSE {}) :
            calls = [frames |-> <<Frame(a1, 1), Frame(a2, r2)>>,
                     heap |-> <<CallerList(a1), CallerList(a2)>>,
                     model_before |-> model,
                     order |-> <<>>]

(* a step of invocation c: its frame, and the list it holds, replaced *)
FrameStep(c, f, list) ==
    calls' = [calls EXCEPT !.frames[c] = f,
                           !.heap[calls.frames[c].ref] = list,
                           !.order = Append(@, c)]

(* a model attribute reset to empty when a call ends *)
RestoredModelCleared(original_model) == ""

(* line 475 *)
RestoredModel(original_model) == original_model

(* lines 496-499, 194-318, 402-404: from the first resumption of the       *)
(* generator to the await of the first request                             *)
ConcEnter(c) ==
    LET f == calls.frames[c]
        list == ChatMessages(f.args, calls.heap[f.ref])
    IN  /\ f.pc = "created"
        /\ IF ValidateParams(f.args) # ""
              \/ \E i \in 1..Len(list) : ~ContentOk(MsgContent(list[i]))
              \/ ~(0 < f.args.retries)
           THEN FrameStep(c, [f EXCEPT !.pc = "raised", !.original_model = model], list)
           ELSE FrameStep(c, [f EXCEPT !.pc = "first",
                                       !.original_model = model,
                                       !.api_messages = ApiMessages(list),
                                       !.request_params = Some(BuildRequestParams(f.args, model)),
                                       !.requests = <<FirstRequest(BuildRequestParams(f.args, model),
                                                                   ApiMessages(list))>>],
                          list)
        /\ UNCHANGED <<frame_vars, model, upload_vars>>

(* line 404 raises on the last attempt: lines 469-472 *)
ConcFirstFails(c) ==
    LET f == calls.frames[c]
    IN  /\ f.pc = "first"
        /\ LastAttempt(0, f.args.retries)
        /\ FrameStep(c, [f EXCEPT !.pc = "raised"], calls.heap[f.ref])
        /\ UNCHANGED <<frame_vars, model, upload_vars>>

(* lines 404-408, 451-467: a response without tool calls, up to the yield *)
ConcFirstPlain(c) ==
    LET f == calls.frames[c]
    IN  /\ f.pc = "first"
        /\ \E message \in ConcFirstResponses :
             /\ message.tool_calls = <<>>
             /\ FrameStep(c, [f EXCEPT !.pc = "finish",
                                        !.turn = Append(@, PlainMessage(f.args, message)),
                                        !.out = @ \o PlainYields(f.args, message)],
                           Append(calls.heap[f.ref], PlainMessage(f.args, message)))
        /\ UNCHANGED <<frame_vars, model, upload_vars>>

(* lines 404-426: a response with tool calls, up to the await of the tools *)
ConcFirstTools(c) ==
    LET f == calls.frames[c]
    IN  /\ f.pc = "first"
        /\ \E message \in ConcFirstResponses :
             /\ message.tool_calls # <<>>
             /\ LET assistant_message == ToolCallsMessage(ToolCallsOf(message.tool_calls, 0))
                IN  FrameStep(c, [f EXCEPT !.pc = "tool",
                                           !.tool_calls = message.tool_calls,
                                           !.api_messages = Append(@, assistant_message),
                                           !.turn = Append(@, assistant_message)],
                              Append(calls.heap[f.ref], assistant_message))
        /\ UNCHANGED <<frame_vars, model, upload_vars>>

(* lines 426-438: the tools return, up to the await of the second request *)
ConcToolsDone(c) ==
    LET f == calls.frames[c]
        r == _execute_tool(f.tool_calls, f.args.tools,
                           MissingUpTo(f.tool_calls, Len(f.tool_calls)))
        api == f.api_messages \o ToolMessages(r.tool_responses)
    IN  /\ f.pc = "tool"
        /\ IF r.error # ""
           THEN FrameStep(c, [f EXCEPT !.pc = "raised"], calls.heap[f.ref])
           ELSE FrameStep(c, [f EXCEPT !.pc = "second",
                                       !.api_messages = api,
                                       !.turn = @ \o ToolMessages(r.tool_responses),
                                       !.requests = Append(@, SecondRequest(Val(f.request_params), api))],
                          calls.heap[f.ref] \o ToolMessages(r.tool_responses))
        /\ UNCHANGED <<frame_vars, model, upload_vars>>

(* line 438 raises on the last attempt *)
ConcSecondFails(c) ==
    LET f == calls.frames[c]
    IN  /\ f.pc = "second"
        /\ LastAttempt(0, f.args.retries)
        /\ FrameStep(c, [f EXCEPT !.pc = "raised"], calls.heap[f.ref])
        /\ UNCHANGED <<frame_vars, model, upload_vars>>

(* lines 438-450: the second response, up to the yield *)
ConcSecondResponse(c) ==
    LET f == calls.frames[c]
    IN  /\ f.pc = "second"
        /\ \E message \in ConcSecondResponses :
             FrameStep(c, [f EXCEPT !.pc = "finish",
                                    !.turn = Append(@, AssistantMessage(message)),
                                    !.out = @ \o YieldMessage(message)],
                       Append(calls.heap[f.ref], AssistantMessage(message)))
        /\ UNCHANGED <<frame_vars, model, upload_vars>>

(* lines 468 and 475: the generator is resumed after its last yield *)
ConcFinish(c) ==
    LET f == calls.frames[c]
    IN  /\ f.pc = "finish"
        /\ model' = RestoredModel(f.original_model)
        /\ FrameStep(c, [f EXCEPT !.pc = "done"], calls.heap[f.ref])
        /\ UNCHANGED <<frame_vars, upload_vars>>

ConcNext ==
    \/ \E c \in CallIds : ConcEnter(c)
    \/ \E c \in CallIds : ConcFirstFails(c)
    \/ \E c \in CallIds : ConcFirstPlain(c)
    \/ \E c \in CallIds : ConcFirstTools(c)
    \/ \E c \in CallIds : ConcToolsDone(c)
    \/ \E c \in CallIds : ConcSecondFails(c)
    \/ \E c \in CallIds : ConcSecondResponse(c)
    \/ \E c \in CallIds : ConcFinish(c)

ConcSpec == ConcInit /\ [][ConcNext]_vars

-----------------------------------------------------------------------------
(* Vocabulary of the properties *)
Range(s) == {s[i] : i \in DOMAIN s}
Last(s) == s[Len(s)]
Count(s, P(_)) == Cardinality({i \in DOMAIN s : P(s[i])})

(* the list _chat_api received, and what has been appended to it since *)
Entry == ChatMessages(args, messages0)
Appended == SubSeq(messages, Len(Entry) + 1, Len(messages))

IsToolCallsMessage(m) == m.role = "assistant" /\ "tool_calls" \in DOMAIN m
IsFinalMessage(m) == m.role = "assistant" /\ "tool_calls" \notin DOMAIN m
IsFirst(r) == r.call = "first"
IsSecond(r) == r.call = "second"
OnlyFirstFailed == \A i \in DOMAIN failures : failures[i] = "first"

ReasoningTexts ==
    {m.reasoning_content : m \in FirstResponses \cup SecondResponses}
    \cup {c.reasoning_content : c \in Chunks}
IsReasoning(f) == \E t \in ReasoningTexts \ {""} : f = "REASONING: " \o t
ContentFragments(o) == SelectSeq(o, LAMBDA f : ~IsReasoning(f))

InRange(o, lo, hi) == o = None \/ (lo <= Val(o) /\ Val(o) <= hi)
AllInRange ==
    /\ InRange(args.topp, 0, 1)
    /\ InRange(args.temperature, 0, 2)
    /\ InRange(args.presence_penalty, -2, 2)
    /\ InRange(args.frequency_penalty, -2, 2)
    /\ InRange(args.logprobs, 0, 20)

LogprobsReturned ==
    executed = <<>> /\ args.response_logprobs = Some(TRUE) /\ Val(response).logprobs # None

(* the fragments a completed message is expected to produce *)
ExpectedOut ==
    LET m == Val(response)
    IN  (IF m.reasoning_content # "" THEN <<"REASONING: " \o m.reasoning_content>> ELSE <<>>)
        \o (IF LogprobsReturned THEN <<m.content \o "\nLogprobs: " \o Val(m.logprobs)>>
            ELSE IF m.content # "" THEN <<m.content>> ELSE <<>>)

SamplingKeys ==
    {"model", "max_tokens", "top_p", "temperature", "stop", "presence_penalty",
     "frequency_penalty", "seed", "logprobs", "top_logprobs", "response_format"}

-----------------------------------------------------------------------------
(* C1: in non-streaming mode each message of the turn is appended to the   *)
(* history once: the appended messages hold at most one assistant          *)
(* tool-call message and at most one final assistant message, whatever the *)
(* number of attempts.                                                     *)
C1_HistoryMutatedOncePerTurn ==
    ~args.stream =>
        /\ Count(Appended, IsToolCallsMessage) <= 1
        /\ Count(Appended, IsFinalMessage) <= 1

(* C2: every invocation of _execute_tool returns, with exactly one result  *)
(* per tool call, the i-th result carrying the id of the i-th call.        *)
C2_OneResultPerToolCall ==
    \A k \in DOMAIN executed :
        LET e == executed[k]
        IN  /\ e.error = ""
            /\ Len(e.tool_responses) = Len(e.tool_calls)
            /\ \A i \in DOMAIN e.tool_calls :
                  e.tool_calls[i].id # "" => e.tool_responses[i][2] = e.tool_calls[i].id

(* C3: once the second request has failed, in either mode, the failure is  *)
(* not raised and the turn is not restarted: an error fragment has been    *)
(* yielded, an assistant error message appended, and the first request was *)
(* issued once.                                                            *)
C3_SecondFailureReportedInline ==
    ("second" \in Range(failures)) =>
        /\ ErrorFragment(TransportError) \in Range(out)
        /\ \E i \in DOMAIN messages :
              /\ messages[i].role = "assistant"
              /\ messages[i].content = [str |-> "error: " \o TransportError]
        /\ Count(requests, IsFirst) = 1
        /\ (Last(failures) = "second" => pc # "raised")

(* C4: a non-streaming turn that ends after k failed first requests and a  *)
(* successful one has issued the first request k+1 times, slept 1, 2, ..., *)
(* 2^(k-1) seconds between the attempts and nothing after the success, and *)
(* its last message and its fragments are those of the response received.  *)
C4_RetryThenSuccess ==
    (pc = "done" /\ ~args.stream /\ response # None /\ OnlyFirstFailed) =>
        LET k == Len(failures)
        IN  /\ k < args.retries
            /\ Count(requests, IsFirst) = k + 1
            /\ Len(requests) = k + 1 + Len(executed)
            /\ sleeps = [i \in 1..k |-> Pow2(i - 1)]
            /\ Last(messages).role = "assistant"
            /\ Last(messages).content = [str |-> Val(response).content]
            /\ out = ExpectedOut

C4_Witness ==
    /\ pc = "done" /\ ~args.stream /\ args.retries = 3
    /\ failures = <<"first", "first">> /\ sleeps = <<1, 2>>
    /\ Len(requests) = 3 /\ out = <<"Paris">>

(* C5: a non-streaming turn whose every first request failed has issued it *)
(* exactly retries times, slept only between the attempts, raised the last *)
(* failure, yielded nothing and left the history as it received it.        *)
C5_AllAttemptsFail ==
    (~args.stream /\ failures # <<>> /\ OnlyFirstFailed
        /\ (pc = "raised" \/ Len(failures) >= args.retries)) =>
        /\ pc = "raised"
        /\ error = TransportError
        /\ Len(requests) = args.retries
        /\ Len(failures) = args.retries
        /\ sleeps = [i \in 1..(args.retries - 1) |-> Pow2(i - 1)]
        /\ out = <<>>
        /\ messages = Entry

C5_Witness ==
    /\ pc = "raised" /\ ~args.stream /\ args.retries = 3
    /\ failures = <<"first", "first", "first">> /\ Len(requests) = 3

(* C6: with every supplied sampling parameter inside its inclusive range   *)
(* validation passes, the request is built and (when the mode issues one)  *)
(* sent; with any supplied parameter outside its range a validation error  *)
(* naming an offending parameter is raised, no request has been issued and *)
(* the history is as _chat_api received it.                                *)
C6_ParameterValidation ==
    (pc \notin {"idle", "validate"}) =>
        IF AllInRange
        THEN /\ error \notin {"ValueError: top_p", "ValueError: temperature",
                              "ValueError: presence_penalty",
                              "ValueError: frequency_penalty", "ValueError: logprobs"}
             /\ (pc # "build" => request_params # None)
             /\ (pc \in {"done", "raised"} /\ (args.stream \/ args.retries >= 1)
                    => requests # <<>>)
        ELSE /\ pc = "raised"
             /\ request_params = None
             /\ requests = <<>>
             /\ messages = Entry
             /\ \/ error = "ValueError: top_p" /\ ~InRange(args.topp, 0, 1)
                \/ error = "ValueError: temperature" /\ ~InRange(args.temperature, 0, 2)
                \/ error = "ValueError: presence_penalty" /\ ~InRange(args.presence_penalty, -2, 2)
                \/ error = "ValueError: frequency_penalty" /\ ~InRange(args.frequency_penalty, -2, 2)
                \/ error = "ValueError: logprobs" /\ ~InRange(args.logprobs, 0, 20)

C6_Witness ==
    /\ pc = "raised" /\ args.temperature = Some(3)
    /\ error = "ValueError: temperature" /\ requests = <<>>

(* C7 as stated: a call with no tools and no failures that has ended has   *)
(* appended exactly one assistant message, whose content is the            *)
(* concatenation of the yielded fragments that are not reasoning           *)
(* fragments.                                                              *)
C7_RoundTrip ==
    (pc = "done" /\ args.tools = None /\ failures = <<>> /\ executed = <<>>) =>
        /\ Len(Appended) = 1
        /\ Appended[1].role = "assistant"
        /\ Appended[1].content = [str |-> Concat(ContentFragments(out))]

(* C7 as amended: for a call with no tools and no failures that has ended, *)
(* non-streaming, once a response has arrived: exactly one assistant       *)
(* message is appended, its content is the response's content, and the     *)
(* non-reasoning fragments concatenate to that content, or to the content  *)
(* followed by "\nLogprobs: " and the log-probabilities when these were    *)
(* requested and returned; streaming: every appended message is an         *)
(* assistant message with non-empty content, and the contents of the       *)
(* appended messages followed by the content not yet flushed by a stop or  *)
(* length signal concatenate to the non-reasoning fragments.               *)
C7_RoundTripAmended ==
    (pc = "done" /\ args.tools = None /\ failures = <<>> /\ executed = <<>>) =>
        IF args.stream
        THEN /\ \A i \in DOMAIN Appended :
                  /\ Appended[i].role = "assistant"
                  /\ DOMAIN Appended[i] = {"role", "content"}
                  /\ "str" \in DOMAIN Appended[i].content
                  /\ Appended[i].content.str # ""
             /\ Concat([i \in DOMAIN Appended |-> Appended[i].content.str])
                    \o assistant_content = Concat(ContentFragments(out))
        ELSE response # None =>
             /\ Len(Appended) = 1
             /\ Appended[1].role = "assistant"
             /\ Appended[1].content = [str |-> Val(response).content]
             /\ Concat(ContentFragments(out)) =
                    IF LogprobsReturned
                    THEN Val(response).content \o "\nLogprobs: " \o Val(Val(response).logprobs)
                    ELSE Val(response).content

C7_Witness ==
    /\ pc = "done" /\ ~args.stream /\ args.tools = None /\ failures = <<>>
    /\ executed = <<>> /\ response # None /\ LogprobsReturned
    /\ out = <<"REASONING: thinking", "Paris\nLogprobs: lp">>
    /\ Len(Appended) = 1

(* C8: the tools are executed for at most one response per turn:           *)
(* _execute_tool is invoked at most once and at most one second request is *)
(* issued.                                                                 *)
C8_OneToolRoundTripPerTurn ==
    /\ Len(executed) <= 1
    /\ Count(requests, IsSecond) <= 1

(* C9: every second request has the sampling parameters of the first       *)
(* request, carries the first request's messages extended by the assistant *)
(* tool-call message and the tool messages, has streaming disabled and     *)
(* carries no tool definitions.                                            *)
C9_SecondRequestOmitsTools ==
    \A i \in DOMAIN requests :
        IsSecond(requests[i]) =>
            /\ \A key \in SamplingKeys : requests[i].params[key] = requests[1].params[key]
            /\ IsPrefix(requests[1].messages, requests[i].messages)
            /\ LET added == SubSeq(requests[i].messages, Len(requests[1].messages) + 1,
                                   Len(requests[i].messages))
               IN  /\ added # <<>>
                   /\ IsToolCallsMessage(added[1])
                   /\ \A j \in DOMAIN added :
                         IsToolCallsMessage(added[j]) \/ added[j].role = "tool"
            /\ requests[i].params.stream = FALSE
            /\ requests[i].params.tools = None

(* C10: the caller's list as it was before the call is a prefix of the     *)
(* list at every later moment of the call.                                 *)
C10_HistoryAppendOnly ==
    ("list" \in DOMAIN args.messages) => IsPrefix(messages0, messages)

(* the text t occurs in the text s *)
Contains(s, t) == \E i \in 1..(Len(s) - Len(t) + 1) : SubSeq(s, i, i + Len(t) - 1) = t

(* the reasoning texts delivered by at least one chunk or response so far *)
ChunkReasoning == {consumed[i].reasoning_content : i \in DOMAIN consumed} \ {""}
ReasoningYielded == {t \in ReasoningTexts \ {""} : \E i \in DOMAIN out : out[i] = "REASONING: " \o t}

(* C11: no message appended to the caller's list carries reasoning text:   *)
(* no appended message has a reasoning_content key, and no reasoning text  *)
(* the transport can deliver (in a stream delta or in a completed first or *)
(* second response) occurs in the content of an appended message, while    *)
(* every reasoning text of a consumed chunk has been yielded as a          *)
(* REASONING fragment.                                                     *)
C11_ReasoningNeverStored ==
    /\ \A i \in DOMAIN Appended :
          /\ "reasoning_content" \notin DOMAIN Appended[i]
          /\ "str" \in DOMAIN Appended[i].content
          /\ \A t \in ReasoningTexts \ {""} : ~Contains(Appended[i].content.str, t)
    /\ ChunkReasoning \subseteq ReasoningYielded

C11_Witness ==
    /\ pc = "done" /\ args.stream
    /\ ChunkReasoning # {}
    /\ response # None /\ Val(response).reasoning_content # ""
    /\ Count(out, IsReasoning) = 2
    /\ Last(Appended) = [role |-> "assistant", content |-> [str |-> "Sunny"]]
    /\ assistant_content = "Par"

(* the calls of one _execute_tool invocation *)
Named(tc) == tc.function.name # ""
Registered(tc) == args.tools # None /\ tc.function.name \in DOMAIN Val(args.tools)
Unknown(tc) == Named(tc) /\ args.tools # None /\ tc.function.name \notin DOMAIN Val(args.tools)
AllJsonOk(tcs) == \A i \in DOMAIN tcs : tcs[i].function.arguments = "{}"
AllNamed(tcs) == \A i \in DOMAIN tcs : Named(tcs[i])
NamedUpTo(tcs, i) == Cardinality({j \in 1..i : Named(tcs[j])})

(* the place in the appended messages of the assistant tool-call message   *)
(* of the k-th _execute_tool invocation                                    *)
ToolCallsIndex(k) ==
    CHOOSE i \in DOMAIN Appended :
        /\ IsToolCallsMessage(Appended[i])
        /\ Cardinality({j \in 1..i : IsToolCallsMessage(Appended[j])}) = k

SecondPending == pc \in {"second", "stream_second"}

(* C12: a tool call whose name is not in the registry gets, at its place   *)
(* in call order, an error envelope that names the missing tool; nothing   *)
(* is raised, the second request is issued, and a turn without transport   *)
(* failures has the final assistant message right after the tool messages  *)
(* and is never left by an exception.                                      *)
C12_UnknownToolReported ==
    \A k \in DOMAIN executed :
        LET e == executed[k]
            tcs == e.tool_calls
            HasUnknown == \E i \in DOMAIN tcs : Unknown(tcs[i])
            final == ToolCallsIndex(k) + Len(e.tool_responses) + 1
        IN  (HasUnknown /\ AllJsonOk(tcs)) =>
                /\ e.error = ""
                /\ \A i \in DOMAIN tcs :
                      Unknown(tcs[i]) =>
                          LET j == NamedUpTo(tcs, i)
                          IN  /\ j \in DOMAIN e.tool_responses
                              /\ e.tool_responses[j][1].role = "tool"
                              /\ e.tool_responses[j][1].content =
                                     [str |-> "{\"error\": \"tool not found "
                                              \o tcs[i].function.name \o "\"}"]
                              /\ tcs[i].id # "" => e.tool_responses[j][2] = tcs[i].id
                /\ Count(requests, IsSecond) + (IF SecondPending THEN 1 ELSE 0)
                      >= Cardinality({j \in 1..k : executed[j].error = ""})
                /\ (failures = <<>> /\ ~(k = Len(executed) /\ SecondPending)) =>
                      /\ pc # "raised"
                      /\ final \in DOMAIN Appended
                      /\ IsFinalMessage(Appended[final])

C12_Witness ==
    /\ pc = "done" /\ failures = <<>> /\ Len(executed) = 1
    /\ executed[1].tool_calls = <<TC_noid, TC_unknown>>
    /\ Len(Appended) = 4
    /\ Appended[3].content = [str |-> "{\"error\": \"tool not found get_time\"}"]
    /\ Appended[3].tool_call_id = "call_2"
    /\ Appended[4] = [role |-> "assistant", content |-> [str |-> "Sunny"]]

Raising(tc) == Registered(tc) /\ Val(args.tools)[tc.function.name] = "raises"
Returning(tc) == Registered(tc) /\ Val(args.tools)[tc.function.name] = "returns"

(* the content of the result expected for a named call *)
ExpectedContent(tc) ==
    IF Unknown(tc) THEN [str |-> "{\"error\": \"tool not found " \o tc.function.name \o "\"}"]
    ELSE IF Raising(tc) THEN [str |-> "{\"error\": \"" \o tc.function.name \o " failed\"}"]
    ELSE [str |-> "\"result of " \o tc.function.name \o "\""]

(* C13: an exception raised by a registered tool never leaves chat: the    *)
(* call's result is an error envelope, every other named call of the same  *)
(* response still gets its result, in call order, the second request is    *)
(* issued, and a turn without transport failures is never left by an       *)
(* exception.                                                              *)
C13_ToolExceptionContained ==
    \A k \in DOMAIN executed :
        LET e == executed[k]
            tcs == e.tool_calls
        IN  ((\E i \in DOMAIN tcs : Raising(tcs[i])) /\ AllJsonOk(tcs)) =>
                /\ e.error = ""
                /\ Len(e.tool_responses) = NamedUpTo(tcs, Len(tcs))
                /\ \A i \in DOMAIN tcs :
                      Named(tcs[i]) =>
                          LET j == NamedUpTo(tcs, i)
                          IN  /\ e.tool_responses[j][1].role = "tool"
                              /\ e.tool_responses[j][1].content = ExpectedContent(tcs[i])
                              /\ Raising(tcs[i]) =>
                                    e.tool_responses[j][1].content =
                                        [str |-> "{\"error\": \"send_email failed\"}"]
                              /\ tcs[i].id # "" => e.tool_responses[j][2] = tcs[i].id
                /\ Count(requests, IsSecond) + (IF SecondPending THEN 1 ELSE 0)
                      >= Cardinality({j \in 1..k : executed[j].error = ""})
                /\ failures = <<>> => pc # "raised"

C13_Witness ==
    /\ pc = "done" /\ failures = <<>> /\ Len(executed) = 1
    /\ executed[1].tool_calls = <<TC_raises, TC_weather>>
    /\ Len(Appended) = 4
    /\ Appended[2].content = [str |-> "{\"error\": \"send_email failed\"}"]
    /\ Appended[2].tool_call_id = "call_3"
    /\ Appended[3].content = [str |-> "\"result of get_weather\""]
    /\ Appended[3].tool_call_id = "call_1"
    /\ Appended[4] = [role |-> "assistant", content |-> [str |-> "Sunny"]]

(* C14: a named tool call whose arguments are not valid JSON fails alone:  *)
(* _execute_tool raises nothing, every named call of the response gets a   *)
(* result (an error envelope for the malformed one), and in non-streaming  *)
(* mode no attempt is failed and retried because of it.                    *)
C14_BadArgumentsConfined ==
    \A k \in DOMAIN executed :
        LET e == executed[k]
            tcs == e.tool_calls
        IN  (args.tools # None
             /\ \E i \in DOMAIN tcs : Named(tcs[i]) /\ tcs[i].function.arguments # "{}") =>
                /\ e.error = ""
                /\ Len(e.tool_responses) = NamedUpTo(tcs, Len(tcs))
                /\ \A i \in DOMAIN failures : failures[i] # "tool"

(* C15: streaming: once a chunk that signals finish_reason tool_calls has  *)
(* been processed, whatever else the chunk carries, no accumulated tool    *)
(* call is left unexecuted: the tool round-trip has been started for the   *)
(* buffer (which is emptied when the round-trip ends).                     *)
C15_CompletionSignalStartsTools ==
    (pc \in {"stream", "finish", "done"} /\ consumed # <<>>
     /\ Last(consumed).choices /\ Last(consumed).finish_reason = "tool_calls") =>
        tool_calls_buffer = <<>>

DistinctIds(tcs) == \A i, j \in DOMAIN tcs : i # j => tcs[i].id # tcs[j].id

(* C16: streaming: tool-call fragments are accumulated by call id: the     *)
(* buffer, and every assistant tool-call message built from it, holds one  *)
(* entry per distinct id (ids pairwise distinct).                          *)
C16_FragmentsMergedById ==
    args.stream =>
        /\ DistinctIds(tool_calls_buffer)
        /\ \A i \in DOMAIN Appended :
              IsToolCallsMessage(Appended[i]) => DistinctIds(Appended[i].tool_calls)

(* a step that consumes one chunk of the stream, and the chunk it consumes *)
ChunkStep == Len(consumed') = Len(consumed) + 1
(* the fragments of a delta whose arguments are well-formed JSON (an empty *)
(* payload stands for the empty object)                                    *)
WellFormedFragments(tcs) == SelectSeq(tcs, LAMBDA tc : tc.function.arguments \in {"", "{}"})

(* C17: streaming: when a delta with tool-call fragments is consumed, the  *)
(* buffer keeps what it held and gains exactly the well-formed fragments   *)
(* of the delta, in order (a fragment whose arguments are not well-formed  *)
(* JSON is left out, the ones after it are still taken), and the malformed *)
(* fragment does not end the stream with an exception.                     *)
C17_MalformedFragmentDiscarded ==
    [][(ChunkStep /\ Last(consumed').choices /\ Last(consumed').content = ""
        /\ Last(consumed').tool_calls # <<>>) =>
           LET kept == WellFormedFragments(Last(consumed').tool_calls)
               n == Len(tool_calls_buffer)
           IN  /\ Len(tool_calls_buffer') = n + Len(kept)
               /\ SubSeq(tool_calls_buffer', 1, n) = tool_calls_buffer
               /\ \A i \in DOMAIN kept :
                     /\ tool_calls_buffer'[n + i].function.name = kept[i].function.name
                     /\ tool_calls_buffer'[n + i].function.arguments = "{}"
                     /\ kept[i].id # "" => tool_calls_buffer'[n + i].id = kept[i].id
               /\ error' # "JSONDecodeError"
               /\ pc' \in {"stream", "stream_second"} \/ error' = "AttributeError"
      ]_vars

C17_Witness ==
    /\ args.stream /\ pc = "done" /\ failures = <<>>
    /\ Len(consumed) = 2
    /\ consumed[1].tool_calls = <<TC_weather>>
    /\ consumed[2].tool_calls = <<TC_badjson, TC_noargs>>
    /\ Len(executed) = 1
    /\ executed[1].tool_calls =
          <<ToolCall("call_1", "get_weather", "{}"), ToolCall("call_6", "get_weather", "{}")>>
    /\ executed[1].error = ""

StopSignal(c) == c.choices /\ c.finish_reason \in {"stop", "length"}
(* the content deltas of the chunks cs that follow the last stop or length *)
(* signal before the last chunk of cs (all of them when there is none)     *)
LastSignalBefore(cs) ==
    LET earlier == {i \in 1..(Len(cs) - 1) : StopSignal(cs[i])}
    IN  IF earlier = {} THEN 0 ELSE CHOOSE i \in earlier : \A j \in earlier : j <= i
DeltasSinceSignal(cs) ==
    Concat([i \in 1..(Len(cs) - LastSignalBefore(cs)) |-> cs[LastSignalBefore(cs) + i].content])

(* C18: streaming: a step that consumes a chunk signalling stop or length  *)
(* appends exactly one assistant message, whose content is the             *)
(* concatenation of the content deltas received so far (since the previous *)
(* such signal, if there was one), when that concatenation is non-empty,   *)
(* and appends nothing when it is empty; the content buffer is empty after *)
(* the step.                                                               *)
C18_ContentFlushedOnStop ==
    [][(ChunkStep /\ StopSignal(Last(consumed'))) =>
           LET content == DeltasSinceSignal(consumed')
           IN  /\ messages' = IF content # ""
                              THEN Append(messages, [role |-> "assistant",
                                                     content |-> [str |-> content]])
                              ELSE messages
               /\ assistant_content' = ""
      ]_vars

C18_Witness ==
    /\ args.stream /\ pc = "stream"
    /\ consumed = <<Chunk("thinking", "Par", <<>>, ""), Chunk("", "is", <<>>, "stop")>>
    /\ Appended = <<[role |-> "assistant", content |-> [str |-> "Paris"]]>>
    /\ assistant_content = ""

(* a turn in which nothing has failed: no transport failure, no exception  *)
(* out of _execute_tool, and no tool call rejected for want of a name      *)
NothingFails ==
    /\ failures = <<>>
    /\ \A k \in DOMAIN executed : executed[k].error = "" /\ AllNamed(executed[k].tool_calls)

(* the messages of the k-th tool round-trip stand together in the appended *)
(* messages: the placeholder tool-call message, one tool message per call  *)
(* in call order, then (once the second response is in) the final message  *)
RoundTripBlock(k) ==
    LET e == executed[k]
        tcs == e.tool_calls
        p == ToolCallsIndex(k)
        pending == k = Len(executed) /\ SecondPending
    IN  /\ Appended[p].role = "assistant"
        /\ Appended[p].content = [str |-> "Tool calls executed"]
        /\ Len(Appended[p].tool_calls) = Len(tcs)
        /\ \A i \in DOMAIN tcs :
              /\ Appended[p].tool_calls[i].function = tcs[i].function
              /\ Appended[p + i].role = "tool"
              /\ Appended[p + i].content = ExpectedContent(tcs[i])
              /\ tcs[i].id # "" => Appended[p + i].tool_call_id = tcs[i].id
        /\ IF pending
           THEN Len(Appended) = p + Len(tcs)
           ELSE /\ p + Len(tcs) + 1 \in DOMAIN Appended
                /\ IsFinalMessage(Appended[p + Len(tcs) + 1])
                /\ DOMAIN Appended[p + Len(tcs) + 1] = {"role", "content"}
        /\ (Len(executed) = 1 /\ \A i \in DOMAIN consumed : ~StopSignal(consumed[i])) =>
              /\ p = 1
              /\ Len(Appended) = Len(tcs) + (IF pending THEN 1 ELSE 2)

(* a step in which the second request is answered *)
SecondAnswered ==
    SecondPending /\ Len(requests') = Len(requests) + 1 /\ failures' = failures

(* C19: in a turn whose first response requests tools and in which nothing *)
(* fails, the appended messages are the assistant tool-call message with   *)
(* the placeholder content, one tool-role message per tool call in call    *)
(* order, then the final assistant message, with nothing in between (and   *)
(* nothing else when the turn has one round-trip and no stop or length     *)
(* signal); and the step that receives the final response appends its      *)
(* message and yields its reasoning fragment first, then its content.      *)
C19_ToolTurnOrder ==
    /\ [](NothingFails => \A k \in DOMAIN executed : RoundTripBlock(k))
    /\ [][SecondAnswered =>
             LET message == Val(response')
             IN  /\ messages' = Append(messages, [role |-> "assistant",
                                                   content |-> [str |-> message.content]])
                 /\ out' = out
                       \o (IF message.reasoning_content # ""
                           THEN <<"REASONING: " \o message.reasoning_content>> ELSE <<>>)
                       \o (IF message.content # "" THEN <<message.content>> ELSE <<>>)
        ]_vars

C19_Witness ==
    /\ pc = "done" /\ ~args.stream /\ NothingFails
    /\ Len(executed) = 1 /\ executed[1].tool_calls = <<TC_weather>>
    /\ Appended = <<ToolCallsMessage(ToolCallsOf(<<TC_weather>>, 0)),
                    [role |-> "tool", content |-> [str |-> "\"result of get_weather\""],
                     tool_call_id |-> "call_1"],
                    [role |-> "assistant", content |-> [str |-> "Sunny"]]>>
    /\ out = <<"REASONING: thinking", "Sunny">>

(* C20: in streaming mode, for every value of retries, the initial request *)
(* is issued exactly once (none is reissued), no backoff sleep is ever     *)
(* executed and the retry counter never moves; a transport failure of the  *)
(* request or of the stream ends the call with that error at once.         *)
C20_NoRetryWhenStreaming ==
    args.stream =>
        /\ Count(requests, IsFirst) <= 1
        /\ pc \in {"stream", "stream_second", "finish", "done"} => Count(requests, IsFirst) = 1
        /\ sleeps = <<>>
        /\ attempt = 0
        /\ (\E i \in DOMAIN failures : failures[i] \in {"first", "stream"}) =>
              /\ pc = "raised"
              /\ error = TransportError
              /\ Last(failures) \in {"first", "stream"}
              /\ Count(requests, IsFirst) = 1

C20_Witness ==
    /\ args.stream /\ args.retries = MaxRetries
    /\ pc = "raised" /\ error = TransportError
    /\ failures = <<"stream">> /\ Len(consumed) >= 1
    /\ Count(requests, IsFirst) = 1 /\ sleeps = <<>>

(* a caller part that carries none of the keys text, input_file, input_image *)
UnknownPart(part) == DOMAIN part \cap {"text", "input_file", "input_image"} = {}
HasUnknownPart(msgs) ==
    \E i \in DOMAIN msgs :
        /\ "list" \in DOMAIN MsgContent(msgs[i])
        /\ \E j \in DOMAIN MsgContent(msgs[i]).list : UnknownPart(MsgContent(msgs[i]).list[j])

(* C21: a chat call whose messages hold a content part with none of the    *)
(* keys text, input_file, input_image sends no request and, once past the  *)
(* normalizer, has raised a format error.                                  *)
C21_UnknownPartRejected ==
    HasUnknownPart(Entry) =>
        /\ requests = <<>>
        /\ pc \in {"idle", "validate", "build", "raised"}
        /\ pc = "raised" => error = "ValueError: content"

(* C22: normalizing the content of a wire-level message again returns it   *)
(* unchanged, for every request built from messages whose parts are text,  *)
(* file-reference, inline-file and image parts.                            *)
C22_NormalizerIdempotent ==
    ~HasUnknownPart(Entry) =>
        \A i \in DOMAIN requests :
            \A j \in DOMAIN requests[i].messages :
                LET c == requests[i].messages[j].content
                IN  "list" \in DOMAIN c => NormalizeContent(c) = c.list

(* C25: after every tool round-trip, the tool_call_id of each tool-role    *)
(* message is the id of the entry it answers in the tool_calls of the      *)
(* assistant tool-call message before it (the entries without a name get   *)
(* no answer and are passed over).                                         *)
C25_ToolCallIdsMatch ==
    \A k \in DOMAIN executed :
        LET tcs == executed[k].tool_calls
            p == ToolCallsIndex(k)
        IN  executed[k].error = "" =>
                \A i \in DOMAIN tcs :
                    Named(tcs[i]) =>
                        Appended[p + NamedUpTo(tcs, i)].tool_call_id = Appended[p].tool_calls[i].id

(* C26: a non-streaming call that has completed without raising has       *)
(* issued at least one request and its last appended message is a final    *)
(* assistant message, whatever the value of retries.                       *)
C26_CompletionMeansResponse ==
    (~args.stream /\ pc = "done") =>
        /\ Len(requests) >= 1
        /\ Appended # <<>>
        /\ IsFinalMessage(Last(Appended))
        /\ Count(Appended, IsFinalMessage) = 1

(* chunks that signal the completion of tool calls *)
CompletionSignals ==
    Cardinality({i \in DOMAIN consumed :
                    consumed[i].choices /\ consumed[i].finish_reason = "tool_calls"})

(* C27: every chat call ends, in Done or with a raised error; a            *)
(* non-streaming call issues at most 2 * retries requests and executes at  *)
(* most retries backoff sleeps; a streaming call issues at most one stream *)
(* request and at most one second request per tool-call completion signal. *)
C27_Terminates ==
    /\ [](~args.stream => /\ Len(requests) <= 2 * args.retries
                          /\ Len(sleeps) <= args.retries)
    /\ [](args.stream => /\ Count(requests, IsFirst) <= 1
                         /\ Count(requests, IsSecond) <= CompletionSignals)
    /\ <>(pc \in {"done", "raised"})

C27_Witness ==
    /\ ~args.stream /\ args.retries = 2 /\ pc = "raised"
    /\ Len(requests) = 2 * args.retries
    /\ failures = <<"second", "second">>
    /\ Len(sleeps) = 1

-----------------------------------------------------------------------------
(* what upload i returns when its file is read and sent *)
Uploaded(i) ==
    LET path == file_paths[i]
    IN  UploadResult(Some(FileId(SentName(display_names, i, path), path)),
                     Some(MimeType(path)), None)
(* the entries upload i can end with, from its own path alone *)
OwnEntries(i) ==
    LET path == file_paths[i]
    IN  IF path \notin DOMAIN FileSizes
        THEN {UploadResult(None, None, Some(NotFoundText(path)))}
        ELSE IF FileSizes[path] > SizeLimit
        THEN {UploadResult(None, None, Some(OversizeText(path)))}
        ELSE {Uploaded(i), UploadResult(None, Some(MimeType(path)), Some(TransportError))}
Finished(t) == t.pc \in {"returned", "raised"}
OwnOutcome(i) ==
    IF tasks[i].pc = "raised" THEN UploadResult(None, None, Some(tasks[i].error))
    ELSE Val(tasks[i].result)

(* C23: upload_files over n >= 1 paths returns exactly n results, result i *)
(* being the outcome of the upload of path i whatever the order in which   *)
(* the uploads finished; a missing file, an oversize file or a transport   *)
(* error is an error entry at its own index, and a step of one upload      *)
(* neither cancels another upload nor changes what it has produced.        *)
C23_UploadResultsInOrder ==
    /\ [](upload_pc = "returned" =>
            /\ Len(file_paths) >= 1
            /\ Len(final_results) = Len(file_paths)
            /\ \A i \in DOMAIN file_paths :
                  /\ final_results[i] = OwnOutcome(i)
                  /\ final_results[i] \in OwnEntries(i))
    /\ [][\A i \in DOMAIN tasks :
            /\ Finished(tasks[i]) => tasks'[i] = tasks[i]
            /\ \A j \in DOMAIN tasks :
                  (j # i /\ tasks'[i] # tasks[i]) => tasks'[j] = tasks[j]]_vars

(* three uploads finish in the reverse of their order: the last fails in   *)
(* transport, the middle one is oversize, the first succeeds               *)
C23_Witness ==
    /\ upload_pc = "returned"
    /\ file_paths = <<"a.pdf", "big.pdf", "data.bin">>
    /\ completed = <<3, 2, 1>>
    /\ final_results[1] = Uploaded(1)
    /\ final_results[2].error = Some(OversizeText("big.pdf"))
    /\ final_results[3].error = Some(TransportError)

-----------------------------------------------------------------------------
(* the history invocation c starts from when it is given a list of its own *)
OwnBase(c) ==
    LET f == calls.frames[c] IN ChatMessages(f.args, CallerList(f.args))
(* the requests of invocation c carry its parameters, its history and a    *)
(* part of its own turn, and nothing else                                  *)
OwnRequests(c) ==
    LET f == calls.frames[c]
    IN  \A k \in DOMAIN f.requests :
          LET req == f.requests[k]
              rp == BuildRequestParams(f.args, calls.model_before)
          IN  /\ req.params = IF req.call = "first" THEN rp ELSE [rp EXCEPT !.stream = FALSE]
              /\ \E n \in 0..Len(f.turn) :
                    req.messages = ApiMessages(OwnBase(c)) \o SubSeq(f.turn, 1, n)
(* the history of invocation c holds what it held, then c's own turn *)
OwnHistory(c) ==
    LET f == calls.frames[c]
    IN  f.pc # "created" => calls.heap[f.ref] = OwnBase(c) \o f.turn
Ended(c) == calls.frames[c].pc \in {"done", "raised"}
NoSharing ==
    /\ \A c \in DOMAIN calls.frames : OwnRequests(c) /\ OwnHistory(c)
    /\ (\A c \in DOMAIN calls.frames : Ended(c)) => model = calls.model_before
DistinctLists ==
    \A c \in DOMAIN calls.frames, d \in DOMAIN calls.frames :
        c # d => calls.frames[c].ref # calls.frames[d].ref

(* C24: two chat invocations interleaved at their suspension points share  *)
(* no mutable state: the requests of each carry only its own parameters    *)
(* and messages, the history of each receives only the messages of its own *)
(* turn, and the client's model is the same after both as before.          *)
C24_NoSharedState ==
    calls # <<>> => NoSharing

(* C24, amended: the same, for two invocations that are given distinct     *)
(* message lists (or strings)                                              *)
C24_NoSharedStateAmended ==
    (calls # <<>> /\ DistinctLists) => NoSharing

(* both invocations, given lists of their own, made a tool round trip and  *)
(* ended, their steps alternating                                          *)
C24_Witness ==
    /\ calls # <<>>
    /\ DistinctLists
    /\ \A c \in DOMAIN calls.frames :
          /\ calls.frames[c].pc = "done"
          /\ Len(calls.frames[c].requests) = 2
          /\ "list" \in DOMAIN calls.frames[c].args.messages
    /\ calls.frames[1].args.system_instruction # calls.frames[2].args.system_instruction
    /\ calls.frames[1].args.seed # calls.frames[2].args.seed
    /\ calls.order = <<1, 2, 1, 2, 1, 2, 1, 2, 1, 2>>
====
